---- MODULE Spec2Model ----
(***************************************************************************)
(* pass-profiler: the sanitizers of lib/utils/string.ts, permute of        *)
(* lib/utils/array.ts and the PasswordProfiler / PasswordProfile classes.  *)
(*                                                                         *)
(* A JavaScript string is a sequence of UTF-16 code units; the model keeps *)
(* a string as a sequence of character codes (97 = 'a', 65 = 'A',          *)
(* 49 = '1', 35 = '#').                                                    *)
(***************************************************************************)
EXTENDS Integers, Sequences, FiniteSets, TLC

VARIABLES
    input,      \* the string handed to the first sanitizer
    prev,       \* the string the last sanitizer call received
    str,        \* the string the last sanitizer call returned
    op,         \* the last sanitizer called ("none" before the first call)
    steps,      \* the number of sanitizer calls made so far
    matcher,    \* the matcher the caller hands to every stripPattern call, if it keeps one
    arr,        \* the caller's array handed to permute
    permutations, \* what permute returned ("none" before the call)
    options,    \* the options object handed to new PasswordProfiler, if any
    profiler,   \* the fields of the PasswordProfiler, if one exists
    thrown,     \* the error the constructor threw ("none" if it did not)
    profile,    \* the fields of the PasswordProfile parse returned, if any
    lastRead,   \* the getter or method called last and what it returned, if any
    invocations, \* the number of sanitizer calls made for profile so far
    other       \* the fields of a second PasswordProfile of the profiler, if any

sanitizerVars == <<input, prev, str, op, steps, matcher>>
permuteVars == <<arr, permutations>>
profilerVars == <<options, profiler, thrown, profile, lastRead, invocations, other>>
vars == <<input, prev, str, op, steps, matcher, arr, permutations,
          options, profiler, thrown, profile, lastRead, invocations, other>>

-----------------------------------------------------------------------------
(* Bounds of the model *)

RepMaxLen == 7

SeqMaxLen == 5

IlMaxLen == 5

\* the longest string of the model that is letter/digit pairs throughout
IlMaxPairs == 3

PipeMaxLen == 4

\* how many calls are piped one into the next
MaxSteps == 5

\* the longest array handed to permute
PermMaxLen == 3

\* the longest list of custom strength ranges
MaxRanges == 2

\* the longest password parsed
PwMaxLen == 2

\* the longest list of rejected patterns a caller supplies
PatMaxLen == 3

\* the longest string handed to stripPattern with a matcher the caller keeps
MatchMaxLen == 4

\* the longest list of pwned passwords handed to getStrength
PwnedMaxLen == 2

-----------------------------------------------------------------------------
(* Characters *)

IsLower(c) == c >= 97 /\ c <= 122
IsUpper(c) == c >= 65 /\ c <= 90
IsDigit(c) == c >= 48 /\ c <= 57
IsLetter(c) == IsLower(c) \/ IsUpper(c)

\* String.prototype.toLowerCase / toLocaleLowerCase on one ASCII character
toLowerCase(c) == IF IsUpper(c) THEN c + 32 ELSE c

\* an optional value: None, or Some(x) holding x
None == <<>>
Some(x) == <<x>>
Get(o) == o[1]

\* all strings over alphabet of length 0..n
StringsUpTo(alphabet, n) == UNION {[1..k -> alphabet] : k \in 0..n}

-----------------------------------------------------------------------------
(* stripRepeatedStrings *)

\* the back-reference \1 of /(.{l})\1+/gs: without the i flag the copy must
\* equal the captured unit code unit by code unit
BackrefMatchesIgnoreCase(unit, copy) ==
    /\ Len(unit) = Len(copy)
    /\ \A k \in 1..Len(unit) : toLowerCase(unit[k]) = toLowerCase(copy[k])

BackrefMatches(unit, copy) == unit = copy

\* greedy \1+ : the number of copies of the unit s[i..i+l-1] that follow it,
\* given that k of them have been matched already
RECURSIVE Copies(_, _, _, _)
Copies(s, i, l, k) ==
    IF /\ i + (k + 2) * l - 1 <= Len(s)
       /\ BackrefMatches(SubSeq(s, i, i + l - 1),
                         SubSeq(s, i + (k + 1) * l, i + (k + 2) * l - 1))
    THEN Copies(s, i, l, k + 1)
    ELSE k

\* str.replace(/(.{l})\1+/gs, '$1') from position i on: the leftmost match
\* is replaced by its unit and the scan goes on after the match
RECURSIVE ReplaceRepeats(_, _, _)
ReplaceRepeats(s, i, l) ==
    IF i + 2 * l - 1 > Len(s)
    THEN SubSeq(s, i, Len(s))
    ELSE LET k == Copies(s, i, l, 0) IN
         IF k >= 1
         THEN SubSeq(s, i, i + l - 1) \o ReplaceRepeats(s, i + (k + 1) * l, l)
         ELSE <<s[i]>> \o ReplaceRepeats(s, i + 1, l)

\* let l = 0; while (++l <= Math.floor(str.length / 2)) { str = str.replace(...) }
RECURSIVE RepeatLoop(_, _)
RepeatLoop(s, l) ==
    IF l <= Len(s) \div 2
    THEN RepeatLoop(ReplaceRepeats(s, 1, l), l + 1)
    ELSE s

stripRepeatedStrings(s) == RepeatLoop(s, 1)

-----------------------------------------------------------------------------
(* stripSequentialStrings *)

isPairSequential(letter1, letter2, direction) ==
    toLowerCase(letter2) - toLowerCase(letter1) = direction

\* the do-while loop: the index of the last character of the sequence whose
\* pairs up to index i are known to be sequential
RECURSIVE SequenceEnd(_, _, _)
SequenceEnd(s, i, direction) ==
    IF i + 1 <= Len(s) /\ isPairSequential(s[i], s[i + 1], direction)
    THEN SequenceEnd(s, i + 1, direction)
    ELSE i

\* if (sequence.length >= 3) output += sequence[0]
IsCollapsedFromTwo(sequenceLength) == sequenceLength >= 2

IsCollapsed(sequenceLength) == sequenceLength >= 3

\* the for loop with the else of "if (sequence.length >= 3)" left out
RECURSIVE SequentialScanMissingElse(_, _, _)
SequentialScanMissingElse(s, i, direction) ==
    IF i > Len(s) THEN <<>>
    ELSE IF i = Len(s) \/ ~isPairSequential(s[i], s[i + 1], direction)
    THEN <<s[i]>> \o SequentialScanMissingElse(s, i + 1, direction)
    ELSE LET e == SequenceEnd(s, i + 1, direction) IN
         (IF IsCollapsed(e - i + 1) THEN <<s[i]>> ELSE <<>>)
             \o SubSeq(s, i, e)
             \o SequentialScanMissingElse(s, e + 1, direction)

\* the for loop from index i on; what it appends to output
RECURSIVE SequentialScan(_, _, _)
SequentialScan(s, i, direction) ==
    IF i > Len(s) THEN <<>>
    ELSE IF i = Len(s) \/ ~isPairSequential(s[i], s[i + 1], direction)
    THEN <<s[i]>> \o SequentialScan(s, i + 1, direction)
    ELSE LET e == SequenceEnd(s, i + 1, direction) IN
         (IF IsCollapsed(e - i + 1) THEN <<s[i]>> ELSE SubSeq(s, i, e))
             \o SequentialScan(s, e + 1, direction)

stripSequentialStrings(s, direction) == SequentialScan(s, 1, direction)

-----------------------------------------------------------------------------
(* stripInterleavingPairs *)

\* ([a-z][0-9]){2,} or ([0-9][a-z]){2,} with the i flag: the number of
\* consecutive pairs that start at index i
RECURSIVE PairsAt(_, _, _)
PairsAt(s, i, letterFirst) ==
    IF /\ i + 1 <= Len(s)
       /\ IF letterFirst
          THEN IsLetter(s[i]) /\ IsDigit(s[i + 1])
          ELSE IsDigit(s[i]) /\ IsLetter(s[i + 1])
    THEN 1 + PairsAt(s, i + 2, letterFirst)
    ELSE 0

\* the length of the match of interleavingPairsRegex at index i, 0 if none:
\* the first alternative is tried first, each takes all the pairs it can
MatchLengthAt(s, i) ==
    IF PairsAt(s, i, TRUE) >= 2 THEN 2 * PairsAt(s, i, TRUE)
    ELSE IF PairsAt(s, i, FALSE) >= 2 THEN 2 * PairsAt(s, i, FALSE)
    ELSE 0

\* match.match(/[a-z]/gi) and match.match(/[0-9]/g)
LettersOf(match) == SelectSeq(match, IsLetter)
DigitsOf(match) == SelectSeq(match, IsDigit)

digitsMatchLetterPositions(match) ==
    LET chars == LettersOf(match)
        digits == DigitsOf(match)
    IN \A i \in 1..Len(chars) :
           /\ i <= Len(digits)
           /\ toLowerCase(chars[i]) - 96 = digits[i] - 48

\* similarCaseRegex = /(^[a-z]+$)|(^[A-Z]+$)/
areCharsOfSameCase(match) ==
    LET chars == LettersOf(match) IN
    /\ Len(chars) >= 1
    /\ \/ \A i \in 1..Len(chars) : IsLower(chars[i])
       \/ \A i \in 1..Len(chars) : IsUpper(chars[i])

areCharsSequentialAscendingOnly(match) ==
    LET chars == LettersOf(match) IN
    \A i \in 2..Len(chars) :
        toLowerCase(chars[i]) - toLowerCase(chars[i - 1]) = 1

areCharsSequential(match) ==
    LET chars == LettersOf(match)
        Steps(d) == \A i \in 2..Len(chars) :
                        toLowerCase(chars[i]) - toLowerCase(chars[i - 1]) = d
    IN Steps(1) \/ Steps(-1)

\* the penalty, counted in quarters: 0.25 to start with and 0.25 for each
\* criterion that holds
penalty(match) ==
    1 + (IF digitsMatchLetterPositions(match) THEN 1 ELSE 0)
      + (IF areCharsOfSameCase(match) THEN 1 ELSE 0)
      + (IF areCharsSequential(match) THEN 1 ELSE 0)

Max(a, b) == IF a >= b THEN a ELSE b

sanitizedLengthNoFloor(match) == (Len(match) * (4 - penalty(match))) \div 4

\* Math.max(1, match.length * (1 - penalty)), which slice() then truncates
sanitizedLength(match) == Max(1, (Len(match) * (4 - penalty(match))) \div 4)

\* str.replace(interleavingPairsRegex, (match) => match.slice(0, sanitizedLength))
RECURSIVE InterleavingScan(_, _)
InterleavingScan(s, i) ==
    IF i > Len(s) THEN <<>>
    ELSE LET n == MatchLengthAt(s, i) IN
         IF n > 0
         THEN LET match == SubSeq(s, i, i + n - 1) IN
              SubSeq(match, 1, sanitizedLength(match)) \o InterleavingScan(s, i + n)
         ELSE <<s[i]>> \o InterleavingScan(s, i + 1)

stripInterleavingPairs(s) == InterleavingScan(s, 1)

-----------------------------------------------------------------------------
(* toRegex and stripPattern *)

\* A pattern is a record: kind "RegExp" for a compiled regular expression
\* of a literal source, kind "string" for a plain string handed to
\* String.prototype.replace as it is.
RegExpFlags == {"g", "i", "m", "s", "u", "y"}

\* sanitizeFlags: the valid flags, each once
sanitizeFlags(flags) == {flags[k] : k \in 1..Len(flags)} \cap RegExpFlags

\* toRegex of an input that is not in /body/flags form: the input is escaped
\* so that it matches itself; the empty input becomes /^$/
toRegex(inputString, flagsParam) ==
    [kind |-> "RegExp",
     source |-> inputString,
     ignoreCase |-> "i" \in sanitizeFlags(flagsParam),
     global |-> "g" \in sanitizeFlags(flagsParam)]

StringPattern(inputString) ==
    [kind |-> "string", source |-> inputString,
     ignoreCase |-> FALSE, global |-> FALSE]

CharMatches(c, p, ignoreCase) ==
    IF ignoreCase THEN toLowerCase(c) = toLowerCase(p) ELSE c = p

MatchesAt(s, i, pattern) ==
    /\ i + Len(pattern.source) - 1 <= Len(s)
    /\ \A k \in 1..Len(pattern.source) :
           CharMatches(s[i + k - 1], pattern.source[k], pattern.ignoreCase)

\* a replacer that drops the match
ReplacerNothing(match) == <<>>

\* a replacer that gives the first character in lower case
ReplacerLowerCase(match) ==
    IF Len(match) >= 1 THEN <<toLowerCase(match[1])>> ELSE <<>>

\* what the replacer returns for a match: ($1) => $1[0] ?? ''
Replacer(match) == IF Len(match) >= 1 THEN <<match[1]>> ELSE <<>>

\* str.replace(pattern, replacer) from index i on, for a non-empty source:
\* every match with the g flag, the first match only without it
RECURSIVE ReplaceMatches(_, _, _)
ReplaceMatches(s, i, pattern) ==
    IF i > Len(s) THEN <<>>
    ELSE IF MatchesAt(s, i, pattern)
    THEN LET n == Len(pattern.source) IN
         Replacer(SubSeq(s, i, i + n - 1))
             \o (IF pattern.global
                 THEN ReplaceMatches(s, i + n, pattern)
                 ELSE SubSeq(s, i + n, Len(s)))
    ELSE <<s[i]>> \o ReplaceMatches(s, i + 1, pattern)

\* if (!pattern) return str; an empty source matches the empty string only,
\* which the replacer replaces by ''
stripPattern(s, pattern) ==
    IF pattern.source = <<>> THEN s ELSE ReplaceMatches(s, 1, pattern)

-----------------------------------------------------------------------------
(* The sanitizer calls *)

\* what every call does besides computing its result
Called(name) ==
    /\ steps < MaxSteps
    /\ prev' = str
    /\ op' = name
    /\ steps' = steps + 1
    /\ UNCHANGED <<input, matcher, permuteVars, profilerVars>>

ApplyRepeated ==
    /\ str' = stripRepeatedStrings(str)
    /\ Called("stripRepeatedStrings")

ApplyAscending ==
    /\ str' = stripSequentialStrings(str, 1)
    /\ Called("stripSequentialStrings(1)")

ApplyDescending ==
    /\ str' = stripSequentialStrings(str, -1)
    /\ Called("stripSequentialStrings(-1)")

ApplyInterleaving ==
    /\ str' = stripInterleavingPairs(str)
    /\ Called("stripInterleavingPairs")

\* the patterns of the model: 'ab', 'b1' and '' compiled with and without
\* flags, and the same sources as plain strings
PatternSources == {<<97, 98>>, <<98, 49>>, <<>>}

Patterns ==
    {toRegex(p, f) : p \in PatternSources, f \in {<<>>, <<"g", "o", "i", "g">>}}
        \cup {StringPattern(p) : p \in PatternSources}

\* stripPattern(str, m): with the matcher the caller keeps, or with any
\* pattern of the model if it keeps none
ApplyPattern ==
    \E m \in (IF matcher = None THEN Patterns ELSE {Get(matcher)}) :
        /\ str' = stripPattern(str, m)
        /\ Called("stripPattern")

NoPermute == arr = <<>> /\ permutations = "none"

NoProfiler ==
    /\ options = None
    /\ profiler = None
    /\ thrown = "none"
    /\ profile = None
    /\ lastRead = None
    /\ invocations = 0
    /\ other = None

InitWith(inputs) ==
    /\ input \in inputs
    /\ prev = input
    /\ str = input
    /\ op = "none"
    /\ steps = 0
    /\ matcher = None
    /\ NoPermute
    /\ NoProfiler

-----------------------------------------------------------------------------
(* stripRepeatedStrings on every string over 'a', 'b', 'A' *)

RepInputs == StringsUpTo({97, 98, 65}, RepMaxLen)

InitRepeated == InitWith(RepInputs)
NextRepeated == ApplyRepeated
SpecRepeated == InitRepeated /\ [][NextRepeated]_vars

-----------------------------------------------------------------------------
(* stripSequentialStrings on every string over 'a', 'b', 'c', 'B', '1', '2' *)

SeqInputs == StringsUpTo({97, 98, 99, 66, 49, 50}, SeqMaxLen)

InitSequential == InitWith(SeqInputs)
NextSequential == ApplyAscending \/ ApplyDescending
SpecSequential == InitSequential /\ [][NextSequential]_vars

-----------------------------------------------------------------------------
(* stripInterleavingPairs on every string over 'a', 'b', 'c', 'B', '1',    *)
(* '2', '#' and on the longer strings that are pairs throughout            *)

IlLetters == {97, 98, 99, 66}
IlDigits == {49, 50}

PairStrings(pairs) ==
    {s \in [1..2 * pairs -> IlLetters \cup IlDigits] :
        \/ \A k \in 1..pairs : s[2 * k - 1] \in IlLetters /\ s[2 * k] \in IlDigits
        \/ \A k \in 1..pairs : s[2 * k - 1] \in IlDigits /\ s[2 * k] \in IlLetters}

IlInputs ==
    StringsUpTo(IlLetters \cup IlDigits \cup {35}, IlMaxLen)
        \cup UNION {PairStrings(n) : n \in 2..IlMaxPairs}

InitInterleaving == InitWith(IlInputs)
NextInterleaving == ApplyInterleaving
SpecInterleaving == InitInterleaving /\ [][NextInterleaving]_vars

-----------------------------------------------------------------------------
(* The five transformers piped in any order, on every string over           *)
(* 'a', 'b', 'c', 'B', '1', '2'                                             *)

PipeInputs == StringsUpTo({97, 98, 99, 66, 49, 50}, PipeMaxLen)

InitPipe == InitWith(PipeInputs)
NextPipe ==
    \/ ApplyPattern
    \/ ApplyRepeated
    \/ ApplyAscending
    \/ ApplyDescending
    \/ ApplyInterleaving
SpecPipe == InitPipe /\ [][NextPipe]_vars

-----------------------------------------------------------------------------
(* stripPattern with one matcher, on every string over 'a', 'b', 'B', '1' *)

\* 'ab', 'b1', '', 'a', 'aa'
MatcherSources == PatternSources \cup {<<97>>, <<97, 97>>}

\* the sources compiled with each combination of the g and i flags, and
\* handed over as plain strings
Matchers ==
    {toRegex(p, f) : p \in MatcherSources,
                     f \in {<<>>, <<"g">>, <<"i">>, <<"g", "i">>}}
        \cup {StringPattern(p) : p \in MatcherSources}

MatcherInputs == StringsUpTo({97, 98, 66, 49}, MatchMaxLen)

InitMatcher ==
    /\ input \in MatcherInputs
    /\ prev = input
    /\ str = input
    /\ op = "none"
    /\ steps = 0
    /\ matcher \in {Some(m) : m \in Matchers}
    /\ NoPermute
    /\ NoProfiler
NextMatcher == ApplyPattern
SpecMatcher == InitMatcher /\ [][NextMatcher]_vars

-----------------------------------------------------------------------------
(* permute *)

\* A JavaScript value is a record of its type and its value; a function has
\* its source text as value and an id that tells one function object from
\* another of the same text.
Number(n) == [type |-> "number", val |-> n]
String(s) == [type |-> "string", val |-> s]
Boolean(b) == [type |-> "boolean", val |-> b]
Null == [type |-> "null", val |-> "null"]

\* toString, as the code units of the result; numbers 0..9 only
toString(x) ==
    CASE x.type = "number" -> <<48 + x.val>>
      [] x.type = "string" -> x.val
      [] x.type = "boolean" -> IF x.val THEN <<116, 114, 117, 101>>
                               ELSE <<102, 97, 108, 115, 101>>
      [] x.type = "null" -> <<110, 117, 108, 108>>
      [] x.type = "function" -> x.val

\* a < b as strings: code unit by code unit, a proper prefix first
StringLess(a, b) ==
    \E k \in 1..Len(b) :
        /\ \A j \in 1..(k - 1) : j <= Len(a) /\ a[j] = b[j]
        /\ k > Len(a) \/ a[k] < b[k]

\* x === y
StrictEquals(x, y) == x = y

\* the sorted array with x put in: after every element that is not to come
\* after it, so that equal elements keep their order (the sort is stable)
RECURSIVE InsertSorted(_, _)
InsertSorted(sorted, x) ==
    IF sorted = <<>> THEN <<x>>
    ELSE IF StringLess(toString(x), toString(sorted[Len(sorted)]))
    THEN Append(InsertSorted(SubSeq(sorted, 1, Len(sorted) - 1), x),
                sorted[Len(sorted)])
    ELSE Append(sorted, x)

\* arr.sort() without compareFn: by toString, in code unit order
RECURSIVE DefaultSort(_)
DefaultSort(a) ==
    IF a = <<>> THEN <<>>
    ELSE InsertSorted(DefaultSort(SubSeq(a, 1, Len(a) - 1)), a[Len(a)])

RemoveAt(a, i) == SubSeq(a, 1, i - 1) \o SubSeq(a, i + 1, Len(a))

\* the candidate at index i is skipped: if (prev === input[i]) continue
Skips(previous, candidate) == StrictEquals(previous, candidate)

\* generate(input, output, permutations): the permutations it pushes, and
\* its for loop from index i on with the value of prev
RECURSIVE generate(_, _)
RECURSIVE GenerateLoop(_, _, _, _)
generate(in, out) ==
    IF Len(in) = 0 THEN <<out>> ELSE GenerateLoop(in, out, 1, Null)

GenerateLoop(in, out, i, previous) ==
    IF i > Len(in) THEN <<>>
    ELSE IF Skips(previous, in[i])
    THEN GenerateLoop(in, out, i + 1, previous)
    ELSE generate(RemoveAt(in, i), Append(out, in[i]))
             \o GenerateLoop(in, out, i + 1, in[i])

\* permute(arr) returns generate(arr.sort(), [], []); arr is sorted in place
\* the one ordering the caller gave
permuteGivenOrder(a) == <<a>>

\* no permutation of an empty array
permuteNoneOfEmpty(a) ==
    IF a = <<>> THEN <<>> ELSE generate(DefaultSort(a), <<>>)

permute(a) == generate(DefaultSort(a), <<>>)

Permute ==
    /\ permutations = "none"
    /\ permutations' = permute(arr)
    /\ arr' = DefaultSort(arr)
    /\ UNCHANGED <<sanitizerVars, profilerVars>>

\* the arrays of the model: 1, 2, '1', 'b', true and null in any order
Items == {Number(1), Number(2), String(<<49>>), String(<<98>>), Boolean(TRUE), Null}

NoSanitizer ==
    /\ input = <<>>
    /\ prev = <<>>
    /\ str = <<>>
    /\ op = "none"
    /\ steps = 0
    /\ matcher = None

InitPermute ==
    /\ arr \in StringsUpTo(Items, PermMaxLen)
    /\ permutations = "none"
    /\ NoSanitizer
    /\ NoProfiler
NextPermute == Permute
SpecPermute == InitPermute /\ [][NextPermute]_vars

-----------------------------------------------------------------------------
(* PasswordProfiler *)

\* Entropy values and range limits are kept in hundredths: 28.01 is 2801.
Infinity == 1000000

DEFAULT_STRENGTH_RANGES ==
    << [label |-> "Very Weak", range |-> <<0, 2800>>],
       [label |-> "Weak", range |-> <<2801, 5000>>],
       [label |-> "Reasonable", range |-> <<5001, 6000>>],
       [label |-> "Strong", range |-> <<6001, 8000>>],
       [label |-> "Very Strong", range |-> <<8001, Infinity>>] >>

\* the built-in patterns, 'pass' and 'qwerty' standing for the list
COMMON_PATTERNS == << <<112, 97, 115, 115>>, <<113, 119, 101, 114, 116, 121>> >>

\* the validation loop of setupStrengthRanges from range k on, previousMax
\* being None while it is undefined: TRUE if an InvalidRangeError is thrown
RECURSIVE RangesThrowNoOverlapCheck(_, _, _)
RangesThrowNoOverlapCheck(ranges, k, previousMax) ==
    IF k > Len(ranges) THEN FALSE
    ELSE LET min == ranges[k].range[1]
             max == ranges[k].range[2]
         IN IF max < min THEN TRUE
            ELSE RangesThrowNoOverlapCheck(ranges, k + 1, Some(max))

RECURSIVE RangesThrow(_, _, _)
RangesThrow(ranges, k, previousMax) ==
    IF k > Len(ranges) THEN FALSE
    ELSE LET min == ranges[k].range[1]
             max == ranges[k].range[2]
             \* previousMax ??= min
             assigned == IF previousMax = None THEN min ELSE Get(previousMax)
         IN IF max < min THEN TRUE
            ELSE IF min <= assigned THEN TRUE
            ELSE RangesThrow(ranges, k + 1, Some(max))

\* setupStrengthRanges: whether it throws, and what it returns if it does not
setupStrengthRangesThrows(opts) ==
    opts.strengthRanges # None /\ RangesThrow(Get(opts.strengthRanges), 1, None)

setupStrengthRanges(opts) ==
    IF opts.strengthRanges = None
    THEN DEFAULT_STRENGTH_RANGES
    ELSE Get(opts.strengthRanges)

\* the list as it is
KeepAll(list) == list

\* [...new Set(list)]: each value once, at the place of its first occurrence
RECURSIVE Unique(_)
Unique(list) ==
    IF list = <<>> THEN <<>>
    ELSE LET front == Unique(SubSeq(list, 1, Len(list) - 1))
             x == list[Len(list)]
         IN IF \E k \in 1..Len(front) : front[k] = x THEN front ELSE Append(front, x)

\* the list in the order it was given
GivenOrder(list) == list

\* the list sorted by (p1, p2) => p2.length - p1.length with p put in: before
\* the first shorter pattern, so that patterns of one length keep their order
RECURSIVE InsertByLength(_, _)
InsertByLength(sorted, p) ==
    IF sorted = <<>> THEN <<p>>
    ELSE IF Len(sorted[Len(sorted)]) < Len(p)
    THEN Append(InsertByLength(SubSeq(sorted, 1, Len(sorted) - 1), p),
                sorted[Len(sorted)])
    ELSE Append(sorted, p)

RECURSIVE SortLongestFirst(_)
SortLongestFirst(list) ==
    IF list = <<>> THEN <<>>
    ELSE InsertByLength(SortLongestFirst(SubSeq(list, 1, Len(list) - 1)),
                        list[Len(list)])

setupRejectedPatterns(opts) ==
    SortLongestFirst(Unique(COMMON_PATTERNS \o
        (IF opts.rejectedPatterns = None THEN <<>> ELSE Get(opts.rejectedPatterns))))

\* a sanitizer is a function value: val is its source text, which sort()
\* compares, and name tells what it calls
Function(name, source) == [type |-> "function", val |-> source, name |-> name]

\* (str) => stripRepeatedStrings(str), (str) => stripSequentialStrings(str, 1),
\* (str) => stripSequentialStrings(str, -1), (str) => stripInterleavingPairs(str)
DefaultSanitizers ==
    << Function("stripRepeatedStrings", <<40, 115, 116, 114, 41, 32, 61, 62, 32, 115, 116, 114, 105, 112, 82, 101, 112, 101, 97, 116, 101, 100, 83, 116, 114, 105, 110, 103, 115, 40, 115, 116, 114, 41>>),
       Function("stripSequentialStrings(1)", <<40, 115, 116, 114, 41, 32, 61, 62, 32, 115, 116, 114, 105, 112, 83, 101, 113, 117, 101, 110, 116, 105, 97, 108, 83, 116, 114, 105, 110, 103, 115, 40, 115, 116, 114, 44, 32, 49, 41>>),
       Function("stripSequentialStrings(-1)", <<40, 115, 116, 114, 41, 32, 61, 62, 32, 115, 116, 114, 105, 112, 83, 101, 113, 117, 101, 110, 116, 105, 97, 108, 83, 116, 114, 105, 110, 103, 115, 40, 115, 116, 114, 44, 32, 45, 49, 41>>),
       Function("stripInterleavingPairs", <<40, 115, 116, 114, 41, 32, 61, 62, 32, 115, 116, 114, 105, 112, 73, 110, 116, 101, 114, 108, 101, 97, 118, 105, 110, 103, 80, 97, 105, 114, 115, 40, 115, 116, 114, 41>>) >>

\* (str) => this.rejectedPatterns.reduce((out, pattern) => stripPattern(out, pattern), str)
PatternStep == Function("stripPattern", <<>>)

\* the sanitizers array the constructor works on
SanitizersOf(opts) ==
    IF opts.sanitizers = None THEN DefaultSanitizers ELSE Get(opts.sanitizers)

\* permute(...).map((sanitizers) => [patternStep, ...sanitizers])
setupSanitizersList(opts) ==
    LET permuted == permute(SanitizersOf(opts)) IN
    [k \in 1..Len(permuted) |-> <<PatternStep>> \o permuted[k]]

\* the rejected patterns reach stripPattern as the plain strings they are:
\* rejectedPatterns.reduce((out, pattern) => stripPattern(out, pattern), str)
RECURSIVE StripRejected(_, _, _)
StripRejected(rejectedPatterns, k, out) ==
    IF k > Len(rejectedPatterns) THEN out
    ELSE StripRejected(rejectedPatterns, k + 1,
                       stripPattern(out, StringPattern(rejectedPatterns[k])))

\* sanitizer(output)
RunSanitizer(sanitizer, rejectedPatterns, output) ==
    CASE sanitizer.name = "stripPattern" -> StripRejected(rejectedPatterns, 1, output)
      [] sanitizer.name = "stripRepeatedStrings" -> stripRepeatedStrings(output)
      [] sanitizer.name = "stripSequentialStrings(1)" -> stripSequentialStrings(output, 1)
      [] sanitizer.name = "stripSequentialStrings(-1)" -> stripSequentialStrings(output, -1)
      [] sanitizer.name = "stripInterleavingPairs" -> stripInterleavingPairs(output)

\* sanitizers.reduce((output, sanitizer) => sanitizer(output), this.password)
RECURSIVE RunPipeline(_, _, _, _)
RunPipeline(sanitizers, k, rejectedPatterns, output) ==
    IF k > Len(sanitizers) THEN output
    ELSE RunPipeline(sanitizers, k + 1, rejectedPatterns,
                     RunSanitizer(sanitizers[k], rejectedPatterns, output))

\* the options of the model: custom ranges over 0, 40, 50 and 100, custom
\* patterns 'ab' and 'a', 'ab', 'a', and custom sanitizer lists
RangeLimits == {0, 4000, 5000, 10000}

RangeLists ==
    UNION {[1..n -> {[label |-> "custom", range |-> <<lo, hi>>] :
                        lo \in RangeLimits, hi \in RangeLimits}] : n \in 0..MaxRanges}

\* two closures of const seq = (d) => (str) => stripSequentialStrings(str, d):
\* seq(1) and seq(-1) are different functions with one source text
SeqUp == Function("stripSequentialStrings(1)", <<40, 115, 116, 114, 41, 32, 61, 62, 32, 115, 116, 114, 105, 112, 83, 101, 113, 117, 101, 110, 116, 105, 97, 108, 83, 116, 114, 105, 110, 103, 115, 40, 115, 116, 114, 44, 32, 100, 41>>)
SeqDown == Function("stripSequentialStrings(-1)", <<40, 115, 116, 114, 41, 32, 61, 62, 32, 115, 116, 114, 105, 112, 83, 101, 113, 117, 101, 110, 116, 105, 97, 108, 83, 116, 114, 105, 110, 103, 115, 40, 115, 116, 114, 44, 32, 100, 41>>)

SanitizerLists ==
    { <<>>,
      <<DefaultSanitizers[2], DefaultSanitizers[1]>>,
      <<DefaultSanitizers[1], DefaultSanitizers[2]>>,
      <<SeqUp, SeqDown, SeqUp>> }

OptionsOfModel ==
    [strengthRanges : {None} \cup {Some(r) : r \in RangeLists},
     rejectedPatterns : {None, Some(<< <<97, 98>> >>),
                         Some(<< <<97>>, <<97, 98>>, <<97>> >>)},
     sanitizers : {None} \cup {Some(s) : s \in SanitizerLists},
     strict : {None, Some(TRUE), Some(FALSE)}]

\* 'aaa', 'aba', 'abc', 'cba', 'abab', 'abbc', 'abca', 'A', 'Ab', '1', '#',
\* ' ', 'e' with an acute accent (233), the same with its successors (233,
\* 234, 234, 235), 'a1a1', 'aA1#', 'Test', 'pass', 'passPASS', 'aA1#bB2',
\* 'a2', 'a2a2a2'
ExtraPasswords ==
    { <<97, 97, 97>>, <<97, 98, 97>>, <<97, 98, 99>>, <<99, 98, 97>>,
      <<97, 98, 97, 98>>, <<97, 98, 98, 99>>, <<97, 98, 99, 97>>,
      <<65>>, <<65, 98>>, <<49>>, <<35>>, <<32>>, <<233>>, <<233, 234, 234, 235>>,
      <<97, 49, 97, 49>>, <<97, 65, 49, 35>>, <<84, 101, 115, 116>>, <<112, 97, 115, 115>>, <<112, 97, 115, 115, 80, 65, 83, 83>>,
      <<97, 65, 49, 35, 98, 66, 50>>,
      <<97, 50>>, <<97, 50, 97, 50, 97, 50>> }

\* the passwords of the model: every string over 'a', 'b', 'c' and some of
\* the other character classes
Passwords ==
    StringsUpTo({97, 98, 99}, PwMaxLen) \cup ExtraPasswords

\* the fields the constructor sets for options that pass the validation
Constructed(opts) ==
    [strengthRanges |-> setupStrengthRanges(opts),
     rejectedPatterns |-> setupRejectedPatterns(opts),
     sanitizersList |-> setupSanitizersList(opts),
     strict |-> IF opts.strict = None THEN FALSE ELSE Get(opts.strict)]

\* the caller's options object after the constructor: permute has sorted
\* the array it was handed, which is the caller's options.sanitizers
OptionsAfter(opts) ==
    [opts EXCEPT !.sanitizers = IF opts.sanitizers = None THEN None
                                ELSE Some(DefaultSort(Get(opts.sanitizers)))]

\* new PasswordProfiler(opts): the fields are set up in the constructor's
\* order; an InvalidRangeError leaves no object behind.
Construct ==
    /\ options = None
    /\ \E opts \in OptionsOfModel :
        /\ IF setupStrengthRangesThrows(opts)
           THEN /\ thrown' = "InvalidRangeError"
                /\ profiler' = None
                /\ options' = Some(opts)
           ELSE /\ thrown' = "none"
                /\ profiler' = Some(Constructed(opts))
                /\ options' = Some(OptionsAfter(opts))
        /\ UNCHANGED <<profile, lastRead, invocations, other,
                       sanitizerVars, permuteVars>>

\* a profile that starts with the cache of the profile parsed before it
NewProfileSharingCache(password) ==
    [password |-> password,
     options |-> Get(profiler),
     cachedSanitizedOutput |-> IF profile = None THEN None
                               ELSE Get(profile).cachedSanitizedOutput]

\* new PasswordProfile(password, {...}): the password and the profiler's
\* fields, with nothing cached
NewProfile(password) ==
    [password |-> password,
     options |-> Get(profiler),
     cachedSanitizedOutput |-> None]

\* profiler.parse(password), for the profile the reads below are made on
Parse ==
    /\ profiler # None
    /\ profile = None
    /\ \E password \in Passwords :
        /\ profile' = Some(NewProfile(password))
        /\ UNCHANGED <<options, profiler, thrown, lastRead, invocations, other,
                       sanitizerVars, permuteVars>>

-----------------------------------------------------------------------------
(* PasswordProfile *)

hasNumbers(password) == \E k \in 1..Len(password) : IsDigit(password[k])

hasLowerCaseLetters(password) == \E k \in 1..Len(password) : IsLower(password[k])

hasUpperCaseLetters(password) == \E k \in 1..Len(password) : IsUpper(password[k])

\* the code units \s matches
WhiteSpace ==
    {9, 10, 11, 12, 13, 32, 160, 5760, 8232, 8233, 8239, 8287, 12288, 65279}
        \cup (8192..8202)

\* the class of hasSymbols: the ASCII punctuation and \s
IsSymbol(c) ==
    c \in (33..47) \cup (58..64) \cup (91..96) \cup (123..126) \cup WhiteSpace

hasSymbols(password) == \E k \in 1..Len(password) : IsSymbol(password[k])

InComposition(c, password) ==
    \/ c = "U" /\ hasUpperCaseLetters(password)
    \/ c = "L" /\ hasLowerCaseLetters(password)
    \/ c = "D" /\ hasNumbers(password)
    \/ c = "S" /\ hasSymbols(password)

composition(password) ==
    SelectSeq(<<"U", "L", "D", "S">>, LAMBDA c : InComposition(c, password))

\* a class size for each character of the password
RECURSIVE poolSizePerCharacter(_)
poolSizePerCharacter(password) ==
    IF password = <<>> THEN 0
    ELSE (IF IsDigit(password[1]) THEN 10 ELSE 0)
             + (IF IsSymbol(password[1]) THEN 34 ELSE 0)
             + (IF IsLower(password[1]) THEN 26 ELSE 0)
             + (IF IsUpper(password[1]) THEN 26 ELSE 0)
             + poolSizePerCharacter(Tail(password))

poolSize(password) ==
    (IF hasNumbers(password) THEN 10 ELSE 0)
        + (IF hasSymbols(password) THEN 34 ELSE 0)
        + (IF hasLowerCaseLetters(password) THEN 26 ELSE 0)
        + (IF hasUpperCaseLetters(password) THEN 26 ELSE 0)

\* the pipelines run again on every read
RunsPipelinesAlways(p) == TRUE

\* if (!this.cachedSanitizedOutput): the pipelines are run by this read
RunsPipelines(p) == p.cachedSanitizedOutput = None

\* what the sanitizedVersions getter leaves in cachedSanitizedOutput
SanitizedOutput(p) ==
    IF RunsPipelines(p)
    THEN [k \in 1..Len(p.options.sanitizersList) |->
             RunPipeline(p.options.sanitizersList[k], 1,
                         p.options.rejectedPatterns, p.password)]
    ELSE Get(p.cachedSanitizedOutput)

\* the profile after a read of sanitizedVersions
AfterRead(p) == [p EXCEPT !.cachedSanitizedOutput = Some(SanitizedOutput(p))]

\* the number of sanitizer calls a read of sanitizedVersions makes
RECURSIVE TotalLength(_)
TotalLength(list) ==
    IF list = <<>> THEN 0
    ELSE Len(list[1]) + TotalLength(Tail(list))

Invoked(p) == IF RunsPipelines(p) THEN TotalLength(p.options.sanitizersList) ELSE 0

\* get sanitizedVersions: [...new Set(this.cachedSanitizedOutput)]
sanitizedVersions(p) == Unique(SanitizedOutput(p))

\* Entropy values are kept in hundredths, logarithms in millionths;
\* -Infinity is the number below all of them.
MinusInfinity == -Infinity

\* Math.log2(n) of the pool sizes there are, in millionths
Log2(n) ==
    CASE n = 10 -> 3321928 [] n = 26 -> 4700440 [] n = 34 -> 5087463
      [] n = 36 -> 5169925 [] n = 44 -> 5459432 [] n = 52 -> 5700440
      [] n = 60 -> 5906891 [] n = 62 -> 5954196 [] n = 70 -> 6129283
      [] n = 86 -> 6426265 [] n = 96 -> 6584963

\* Math.log2(poolSize ** length), in millionths: 0 ** 0 is 1 and log2(1) is
\* 0; 0 ** length is 0 and log2(0) is -Infinity
Log2OfPower(pool, length) ==
    IF length = 0 THEN 0
    ELSE IF pool = 0 THEN MinusInfinity
    ELSE length * Log2(pool)

\* this.sanitizedVersions.map((sanitized) => Math.log2(this.poolSize ** sanitized.length))
Logarithms(p) ==
    LET versions == sanitizedVersions(p)
        pool == poolSize(p.password)
    IN [k \in 1..Len(versions) |-> Log2OfPower(pool, Len(versions[k]))]

\* Math.min(...values), of the one or more values there are
RECURSIVE MathMin(_)
MathMin(values) ==
    IF Len(values) = 1 THEN values[1]
    ELSE LET rest == MathMin(Tail(values))
         IN IF values[1] < rest THEN values[1] ELSE rest

\* values.reduce((sum, v) => sum + v, 0)
RECURSIVE Sum(_)
Sum(values) ==
    IF values = <<>> THEN 0
    ELSE LET front == Sum(SubSeq(values, 1, Len(values) - 1))
             last == values[Len(values)]
         IN IF front = MinusInfinity \/ last = MinusInfinity THEN MinusInfinity
            ELSE front + last

\* sum / this.sanitizedVersions.length
Divide(sum, n) == IF sum = MinusInfinity THEN MinusInfinity ELSE sum \div n

\* parseFloat(x.toFixed(2)): millionths rounded to the nearest hundredth
toFixed2(x) == IF x = MinusInfinity THEN MinusInfinity ELSE (x + 5000) \div 10000

\* the mean whatever strict is
entropyAlwaysMean(p) ==
    LET logarithms == Logarithms(p) IN
    toFixed2(Divide(Sum(logarithms), Len(logarithms)))

\* get entropy
entropy(p) ==
    LET logarithms == Logarithms(p) IN
    IF p.options.strict
    THEN toFixed2(MathMin(logarithms))
    ELSE toFixed2(Divide(Sum(logarithms), Len(logarithms)))

\* the loop of get strength from range k on: the index of the first range
\* the entropy is in, 0 if it is in none
RECURSIVE FirstRangeWith(_, _, _)
FirstRangeWith(strengthRanges, k, e) ==
    IF k > Len(strengthRanges) THEN 0
    ELSE IF e >= strengthRanges[k].range[1] /\ e <= strengthRanges[k].range[2] THEN k
    ELSE FirstRangeWith(strengthRanges, k + 1, e)

\* strengthRanges.slice(-1)[0].label is a TypeError when there is no range
strengthThrows(p) ==
    /\ Len(p.options.strengthRanges) = 0
    /\ FirstRangeWith(p.options.strengthRanges, 1, entropy(p)) = 0

\* get strength
strength(p) ==
    LET strengthRanges == p.options.strengthRanges
        k == FirstRangeWith(strengthRanges, 1, entropy(p))
    IN IF k # 0 THEN strengthRanges[k].label
       ELSE strengthRanges[Len(strengthRanges)].label

\* what a read leaves in lastRead: the profile and the getter read, what it
\* returned or threw, and whether it ran the pipelines
Returned(of, getter, value, ran) ==
    Some([of |-> of, getter |-> getter, value |-> value, threw |-> "none", ran |-> ran])

Threw(of, getter, error, ran) ==
    Some([of |-> of, getter |-> getter, value |-> "none", threw |-> error, ran |-> ran])

\* profile.poolSize
ReadPoolSize ==
    /\ profile # None
    /\ lastRead' = Returned("profile", "poolSize", poolSize(Get(profile).password), FALSE)
    /\ UNCHANGED <<options, profiler, thrown, profile, invocations, other,
                   sanitizerVars, permuteVars>>

\* profile.composition
ReadComposition ==
    /\ profile # None
    /\ lastRead' = Returned("profile", "composition",
                            composition(Get(profile).password), FALSE)
    /\ UNCHANGED <<options, profiler, thrown, profile, invocations, other,
                   sanitizerVars, permuteVars>>

\* profile.sanitizedVersions: the getter fills the cache when it is empty,
\* and what is returned is made from the cache
ReadSanitizedVersions ==
    /\ profile # None
    /\ profile' = Some(AfterRead(Get(profile)))
    /\ invocations' = invocations + Invoked(Get(profile))
    /\ lastRead' = Returned("profile", "sanitizedVersions",
                            sanitizedVersions(Get(profile')), RunsPipelines(Get(profile)))
    /\ UNCHANGED <<options, profiler, thrown, other, sanitizerVars, permuteVars>>

\* profile.entropy, which reads this.sanitizedVersions
ReadEntropy ==
    /\ profile # None
    /\ profile' = Some(AfterRead(Get(profile)))
    /\ invocations' = invocations + Invoked(Get(profile))
    /\ lastRead' = Returned("profile", "entropy", entropy(Get(profile')),
                            RunsPipelines(Get(profile)))
    /\ UNCHANGED <<options, profiler, thrown, other, sanitizerVars, permuteVars>>

\* profile.strength, which reads this.entropy
ReadStrength ==
    /\ profile # None
    /\ profile' = Some(AfterRead(Get(profile)))
    /\ invocations' = invocations + Invoked(Get(profile))
    /\ lastRead' = IF strengthThrows(Get(profile'))
                   THEN Threw("profile", "strength", "TypeError",
                              RunsPipelines(Get(profile)))
                   ELSE Returned("profile", "strength", strength(Get(profile')),
                                 RunsPipelines(Get(profile)))
    /\ UNCHANGED <<options, profiler, thrown, other, sanitizerVars, permuteVars>>

Init ==
    /\ NoSanitizer
    /\ NoPermute
    /\ NoProfiler

Next ==
    \/ Construct
    \/ Parse
    \/ ReadPoolSize
    \/ ReadComposition
    \/ ReadSanitizedVersions
    \/ ReadEntropy
    \/ ReadStrength

Spec == Init /\ [][Next]_vars

\* Two profiles of one profiler, read in any interleaving.

\* a few options the constructor accepts: no option given, and two of the
\* default sanitizers in strict mode with or without a pattern of the caller
ProfilesOptions ==
    {opts \in OptionsOfModel :
        /\ opts.strengthRanges = None
        /\ \/ /\ opts.rejectedPatterns = None
              /\ opts.sanitizers = None
              /\ opts.strict = None
           \/ /\ opts.rejectedPatterns \in {None, Some(<< <<97, 98>> >>)}
              /\ opts.sanitizers = Some(<<DefaultSanitizers[2], DefaultSanitizers[1]>>)
              /\ opts.strict = Some(TRUE)}

\* 'abbc', 'a1a1', 'e' with an acute accent
OtherPasswords == {<<97, 98, 98, 99>>, <<97, 49, 97, 49>>, <<233>>}

\* a second profiler.parse(password) on the same profiler
ParseOther ==
    /\ profiler # None
    /\ other = None
    /\ \E password \in OtherPasswords :
        /\ other' = Some(NewProfile(password))
        /\ UNCHANGED <<options, profiler, thrown, profile, lastRead, invocations,
                       sanitizerVars, permuteVars>>

\* a read of poolSize, sanitizedVersions, entropy or strength on the second
\* profile; invocations counts the calls made for the first profile only
ReadOther ==
    /\ other # None
    /\ \E getter \in {"poolSize", "sanitizedVersions", "entropy", "strength"} :
        LET ran == getter # "poolSize" /\ RunsPipelines(Get(other))
            after == IF getter = "poolSize" THEN Get(other) ELSE AfterRead(Get(other))
        IN /\ other' = Some(after)
           /\ lastRead' =
                CASE getter = "poolSize" ->
                         Returned("other", getter, poolSize(after.password), ran)
                  [] getter = "sanitizedVersions" ->
                         Returned("other", getter, sanitizedVersions(after), ran)
                  [] getter = "entropy" ->
                         Returned("other", getter, entropy(after), ran)
                  [] getter = "strength" ->
                         IF strengthThrows(after)
                         THEN Threw("other", getter, "TypeError", ran)
                         ELSE Returned("other", getter, strength(after), ran)
    /\ UNCHANGED <<options, profiler, thrown, profile, invocations,
                   sanitizerVars, permuteVars>>

InitProfiles ==
    /\ NoSanitizer
    /\ NoPermute
    /\ \E opts \in ProfilesOptions :
        /\ options = Some(OptionsAfter(opts))
        /\ profiler = Some(Constructed(opts))
    /\ thrown = "none"
    /\ profile = None
    /\ lastRead = None
    /\ invocations = 0
    /\ other = None

NextProfiles ==
    \/ Parse
    \/ ParseOther
    \/ ReadPoolSize
    \/ ReadSanitizedVersions
    \/ ReadEntropy
    \/ ReadStrength
    \/ ReadOther

SpecProfiles == InitProfiles /\ [][NextProfiles]_vars

\* Profilers of every list of rejected patterns, with no sanitizer, so that
\* the one pipeline is the pattern step alone.

\* 'a', 'ab', 'abc', 'pass'
PatternChoices ==
    {<<97>>, <<97, 98>>, <<97, 98, 99>>, <<112, 97, 115, 115>>}

PatternOptions ==
    [strengthRanges : {None},
     rejectedPatterns : {None} \cup {Some(l) : l \in StringsUpTo(PatternChoices, PatMaxLen)},
     sanitizers : {Some(<<>>)},
     strict : {None}]

InitPatterns ==
    /\ NoSanitizer
    /\ NoPermute
    /\ \E opts \in PatternOptions :
        /\ options = Some(OptionsAfter(opts))
        /\ profiler = Some(Constructed(opts))
    /\ thrown = "none"
    /\ profile = None
    /\ lastRead = None
    /\ invocations = 0
    /\ other = None

NextPatterns ==
    \/ Parse
    \/ ReadSanitizedVersions

SpecPatterns == InitPatterns /\ [][NextPatterns]_vars

-----------------------------------------------------------------------------
(* Claims on the transformers *)

\* s holds a unit that is immediately followed by a code-for-code copy
HasRepeat(s) ==
    \E l \in 1..Len(s), i \in 1..Len(s) :
        /\ i + 2 * l - 1 <= Len(s)
        /\ SubSeq(s, i, i + l - 1) = SubSeq(s, i + l, i + 2 * l - 1)

\* C1: stripRepeatedStrings applied to its own result changes nothing:
\* every call after the first returns the string it received.
C1_Idempotent ==
    (op = "stripRepeatedStrings" /\ steps >= 2) => str = prev

\* C2: each transformer returns a string no longer than the one it
\* received, and so the result of any pipe of them is no longer than the
\* string the pipe started from.
C2_LengthMonotone ==
    /\ Len(str) <= Len(prev)
    /\ Len(str) <= Len(input)

\* a pipe in which a transformer shortened the string and stripPattern
\* shortened it again
C2_Witness ==
    /\ op = "stripPattern"
    /\ steps >= 2
    /\ Len(str) < Len(prev)
    /\ Len(prev) < Len(input)

\* C10: stripRepeatedStrings matches case-sensitively: a string in which no
\* unit is followed by a code-for-code identical copy is returned unchanged,
\* also when adjacent units differ in letter case only.
C10_CaseSensitive ==
    (op = "stripRepeatedStrings" /\ ~HasRepeat(prev)) => str = prev

\* 'aAa' went through stripRepeatedStrings and came back as it was
C10_Witness ==
    /\ op = "stripRepeatedStrings"
    /\ prev = <<97, 65, 97>>
    /\ str = <<97, 65, 97>>

\* the characters of s at the indices in keep, in their order
RECURSIVE Pick(_, _, _)
Pick(s, keep, i) ==
    IF i > Len(s) THEN <<>>
    ELSE (IF i \in keep THEN <<s[i]>> ELSE <<>>) \o Pick(s, keep, i + 1)

\* index i starts a run: it is the first index, or its character does not
\* step by d from the character before it
StartsRun(s, i, d) == i = 1 \/ toLowerCase(s[i]) - toLowerCase(s[i - 1]) # d

\* the first and the last index of the maximal run that holds index i
RunFirst(s, i, d) ==
    CHOOSE j \in 1..i :
        StartsRun(s, j, d) /\ \A k \in (j + 1)..i : ~StartsRun(s, k, d)

RunLast(s, i, d) ==
    CHOOSE j \in i..Len(s) :
        /\ j = Len(s) \/ StartsRun(s, j + 1, d)
        /\ \A k \in (i + 1)..j : ~StartsRun(s, k, d)

\* the indices that survive: the first of each run, and all of a run of 1 or 2
SurvivingIndices(s, d) ==
    {i \in 1..Len(s) :
        StartsRun(s, i, d) \/ RunLast(s, i, d) - RunFirst(s, i, d) + 1 < 3}

\* C9: stripSequentialStrings(s, d) splits s into maximal runs stepping by d
\* (compared after lower-casing), replaces every run of 3 or more by its
\* first character in its original case and copies runs of 1 or 2 unchanged.
C9_RunsCollapsed ==
    /\ op = "stripSequentialStrings(1)"
           => str = Pick(prev, SurvivingIndices(prev, 1), 1)
    /\ op = "stripSequentialStrings(-1)"
           => str = Pick(prev, SurvivingIndices(prev, -1), 1)

\* 'aBc12' went through the ascending pass: 'aBc' is down to 'a', '12' is kept
C9_Witness ==
    /\ op = "stripSequentialStrings(1)"
    /\ prev = <<97, 66, 99, 49, 50>>
    /\ str = <<97, 49, 50>>

\* k letter/digit pairs, or k digit/letter pairs, start at index i
PairsFrom(s, i, k) ==
    /\ i + 2 * k - 1 <= Len(s)
    /\ \/ \A j \in 0..(k - 1) : IsLetter(s[i + 2 * j]) /\ IsDigit(s[i + 2 * j + 1])
       \/ \A j \in 0..(k - 1) : IsDigit(s[i + 2 * j]) /\ IsLetter(s[i + 2 * j + 1])

\* the number of pairs of the maximal run of pairs that starts at index i
RunPairs(s, i) ==
    CHOOSE k \in 0..Len(s) :
        PairsFrom(s, i, k) /\ \A m \in (k + 1)..Len(s) : ~PairsFrom(s, i, m)

\* the letter and the digit of pair k of a run
LetterOfPair(run, k) ==
    IF IsLetter(run[2 * k - 1]) THEN run[2 * k - 1] ELSE run[2 * k]

DigitOfPair(run, k) ==
    IF IsLetter(run[2 * k - 1]) THEN run[2 * k] ELSE run[2 * k - 1]

\* the fraction f of a run, in quarters; the third criterion is read either
\* as "each letter is the next (or each the previous) letter of the alphabet"
\* (consecutive) or as "each letter is after (or each before) the one before
\* it in the alphabet"
RunFraction(run, consecutive) ==
    LET pairs == Len(run) \div 2
        letter(k) == toLowerCase(LetterOfPair(run, k))
        positions == \A k \in 1..pairs : letter(k) - 96 = DigitOfPair(run, k) - 48
        sameCase == \/ \A k \in 1..pairs : IsLower(LetterOfPair(run, k))
                    \/ \A k \in 1..pairs : IsUpper(LetterOfPair(run, k))
        ordered == IF consecutive
                   THEN \/ \A k \in 2..pairs : letter(k) = letter(k - 1) + 1
                        \/ \A k \in 2..pairs : letter(k) = letter(k - 1) - 1
                   ELSE \/ \A k \in 2..pairs : letter(k) > letter(k - 1)
                        \/ \A k \in 2..pairs : letter(k) < letter(k - 1)
    IN 1 + (IF positions THEN 1 ELSE 0) + (IF sameCase THEN 1 ELSE 0)
         + (IF ordered THEN 1 ELSE 0)

\* max(1, floor(n * (1 - f)))
RunKept(run, consecutive) ==
    Max(1, (Len(run) * (4 - RunFraction(run, consecutive))) \div 4)

\* the string with every maximal run of two or more pairs cut to its prefix
RECURSIVE RunsCut(_, _, _)
RunsCut(s, i, consecutive) ==
    IF i > Len(s) THEN <<>>
    ELSE IF RunPairs(s, i) >= 2
    THEN LET run == SubSeq(s, i, i + 2 * RunPairs(s, i) - 1) IN
         SubSeq(run, 1, RunKept(run, consecutive))
             \o RunsCut(s, i + Len(run), consecutive)
    ELSE <<s[i]>> \o RunsCut(s, i + 1, consecutive)

\* C7 as stated: each maximal run of two or more pairs, of n characters, is
\* replaced by its prefix of length max(1, floor(n * (1 - f))), f being 0.25
\* plus 0.25 for each of: digits equal letter positions; letters of one case;
\* letters strictly ascending or strictly descending. The rest is unchanged.
C7_StrictlyOrdered ==
    op = "stripInterleavingPairs" => str = RunsCut(prev, 1, FALSE)

\* C7 amended: the third criterion holds when the letters are consecutive:
\* each letter is the next letter of the alphabet after the one before it,
\* or each is the previous one (case ignored).
C7_Consecutive ==
    op = "stripInterleavingPairs" => str = RunsCut(prev, 1, TRUE)

\* 'a1c2': letters of one case, ascending but not consecutive, kept 'a1'
C7_Witness ==
    /\ op = "stripInterleavingPairs"
    /\ prev = <<97, 49, 99, 50>>
    /\ str = <<97, 49>>

\* C8: stripInterleavingPairs keeps at least 1 character of every matched
\* segment, also when all three criteria hold, and so never returns the
\* empty string for a non-empty one.
C8_AtLeastOne ==
    op = "stripInterleavingPairs" =>
        /\ prev # <<>> => str # <<>>
        /\ \A i \in 1..Len(prev) :
               MatchLengthAt(prev, i) > 0 =>
                   sanitizedLength(SubSeq(prev, i, i + MatchLengthAt(prev, i) - 1)) >= 1

\* 'a1b2' meets all three criteria (f = 100%) and is cut to 'a'
C8_Witness ==
    /\ op = "stripInterleavingPairs"
    /\ prev = <<97, 49, 98, 50>>
    /\ penalty(prev) = 4
    /\ str = <<97>>

-----------------------------------------------------------------------------
(* Claims on the PasswordProfiler *)

\* a list of ranges in which every maximum is at least its minimum and every
\* range after the first starts above the maximum of the one before
ValidRanges(ranges) ==
    /\ \A k \in 1..Len(ranges) : ranges[k].range[2] >= ranges[k].range[1]
    /\ \A k \in 2..Len(ranges) : ranges[k].range[1] > ranges[k - 1].range[2]

CustomRanges == Get(Get(options).strengthRanges)

HasCustomRanges == options # None /\ Get(options).strengthRanges # None

\* C3: a list of custom strength ranges in which every maximum is at least
\* its minimum and every range starts above the previous maximum is accepted:
\* the constructor does not throw and the Profiler classifies with that list.
C3_ValidRangesAccepted ==
    (HasCustomRanges /\ ValidRanges(CustomRanges))
        => /\ thrown = "none"
           /\ profiler # None
           /\ Get(profiler).strengthRanges = CustomRanges

\* C4: custom strength ranges with a maximum below its minimum, or with a
\* range that does not start above the previous maximum, make the constructor
\* throw InvalidRangeError: no Profiler exists and no password is parsed.
C4_InvalidRangesRejected ==
    (HasCustomRanges /\ ~ValidRanges(CustomRanges))
        => /\ thrown = "InvalidRangeError"
           /\ profiler = None
           /\ profile = None

\* the ranges [0, 50] and [40, 100] were handed over and the constructor threw
C4_Witness ==
    /\ HasCustomRanges
    /\ Len(CustomRanges) = 2
    /\ CustomRanges[1].range = <<0, 5000>>
    /\ CustomRanges[2].range = <<4000, 10000>>
    /\ thrown = "InvalidRangeError"

\* every occurrence of each pattern, in any letter case, cut to the first
\* character of the text it matched
RECURSIVE StripEveryOccurrence(_, _, _)
StripEveryOccurrence(rejectedPatterns, k, out) ==
    IF k > Len(rejectedPatterns) THEN out
    ELSE StripEveryOccurrence(rejectedPatterns, k + 1,
             stripPattern(out, toRegex(rejectedPatterns[k], <<"g", "i">>)))

\* C5: the pattern step of a pipeline cuts every occurrence of each rejected
\* pattern, in any letter case, to the first character of the matched text.
\* With no sanitizers the one pipeline is that step alone.
C5_EveryOccurrenceAnyCase ==
    (/\ lastRead # None
     /\ Get(lastRead).getter = "sanitizedVersions"
     /\ Get(profile).options.sanitizersList = << <<PatternStep>> >>)
        => Get(lastRead).value =
               << StripEveryOccurrence(Get(profile).options.rejectedPatterns, 1,
                                       Get(profile).password) >>

-----------------------------------------------------------------------------
(* PasswordProfile with getStrength: the class of lib/password-profile     *)
(* that is constructed from a password and its own options and has one     *)
(* sanitized output                                                        *)

\* constructor(passwordString, options = {}): strengthRanges is taken as it
\* is given, the patterns are de-duplicated and sorted
NewPasswordProfile(passwordString, opts) ==
    [password |-> passwordString,
     strengthRanges |-> IF opts.strengthRanges = None THEN DEFAULT_STRENGTH_RANGES
                        ELSE Get(opts.strengthRanges),
     rejectedPatterns |-> SortLongestFirst(Unique(COMMON_PATTERNS \o
         (IF opts.rejectedPatterns = None THEN <<>> ELSE Get(opts.rejectedPatterns))))]

\* get sanitized: cachedSanitizedOutput is never assigned, so every read
\* strips the patterns and runs the four sanitizers in this order
sanitized(p) ==
    LET patternsToStrip == SortLongestFirst(Unique(COMMON_PATTERNS \o p.rejectedPatterns))
    IN stripSequentialStrings(
           stripSequentialStrings(
               stripInterleavingPairs(
                   stripRepeatedStrings(StripRejected(patternsToStrip, 1, p.password))),
               1),
           -1)

\* get entropy: Math.log2(this.poolSize ** this.sanitized.length), in
\* millionths, not rounded
entropyOfSanitized(p) == Log2OfPower(poolSize(p.password), Len(sanitized(p)))

\* entropy >= min && entropy <= max, the entropy in millionths and the
\* limits in hundredths
WithinLimits(e, range) ==
    /\ e # MinusInfinity
    /\ e >= range[1] * 10000
    /\ range[2] = Infinity \/ e <= range[2] * 10000

\* the for loop of getStrength from range k on: the index of the first
\* range the entropy is in, 0 if it is in none
RECURSIVE FirstRangeWithin(_, _, _)
FirstRangeWithin(ranges, k, e) ==
    IF k > Len(ranges) THEN 0
    ELSE IF WithinLimits(e, ranges[k].range) THEN k
    ELSE FirstRangeWithin(ranges, k + 1, e)

\* pwnedPasswords?.filter((pwnedPass) => pwnedPass === this.password).length ?? undefined
timesPwned(p, pwnedPasswords) ==
    IF pwnedPasswords = None THEN None
    ELSE Some(Cardinality({k \in 1..Len(Get(pwnedPasswords)) :
                               Get(pwnedPasswords)[k] = p.password}))

\* ranges[0].label and ranges.slice(-1)[0].label are a TypeError when there
\* is no range
getStrengthThrows(p, pwnedPasswords) == Len(p.strengthRanges) = 0

\* getStrength without the branch of the pwned passwords
getStrengthIgnoringList(p, pwnedPasswords) ==
    LET e == entropyOfSanitized(p)
        ranges == p.strengthRanges
        k == FirstRangeWithin(ranges, 1, e)
    IN [score |-> e,
        label |-> ranges[IF k # 0 THEN k ELSE Len(ranges)].label,
        isPwned |-> IF pwnedPasswords = None THEN None ELSE Some(FALSE),
        timesPwned |-> timesPwned(p, pwnedPasswords)]

\* getStrength(pwnedPasswords), for a profile with at least one range
getStrength(p, pwnedPasswords) ==
    LET e == entropyOfSanitized(p)
        ranges == p.strengthRanges
        times == timesPwned(p, pwnedPasswords)
        k == FirstRangeWithin(ranges, 1, e)
    IN IF pwnedPasswords # None /\ Get(times) # 0
       THEN [score |-> 0,
             label |-> ranges[1].label,
             isPwned |-> Some(TRUE),
             timesPwned |-> times]
       ELSE [score |-> e,
             label |-> ranges[IF k # 0 THEN k ELSE Len(ranges)].label,
             isPwned |-> IF pwnedPasswords = None THEN None ELSE Some(FALSE),
             timesPwned |-> times]

\* the options of the model: no ranges given, an empty list, one range that
\* starts above 0, two ranges with a gap
PwnedRanges ==
    {None, Some(<<>>),
     Some(<< [label |-> "high", range |-> <<5000, 10000>>] >>),
     Some(<< [label |-> "low", range |-> <<0, 1000>>],
             [label |-> "high", range |-> <<2000, 10000>>] >>)}

PwnedOptions ==
    [strengthRanges : PwnedRanges,
     rejectedPatterns : {None, Some(<< <<97, 98>> >>)}]

\* '', 'a', 'abc', 'e' with an acute accent, 'pass', 'aA1#bB2', 'a2a2a2'
PwnedInputs ==
    {<<>>, <<97>>, <<97, 98, 99>>, <<233>>, <<112, 97, 115, 115>>,
     <<97, 65, 49, 35, 98, 66, 50>>, <<97, 50, 97, 50, 97, 50>>}

\* the lists of pwned passwords: every list over 'a', 'A' and 'aA1#bB2'
PwnedLists == StringsUpTo({<<97>>, <<65>>, <<97, 65, 49, 35, 98, 66, 50>>}, PwnedMaxLen)

\* new PasswordProfile(passwordString, opts)
ConstructProfile ==
    /\ profile = None
    /\ \E passwordString \in PwnedInputs, opts \in PwnedOptions :
        /\ options' = Some(opts)
        /\ profile' = Some(NewPasswordProfile(passwordString, opts))
    /\ UNCHANGED <<profiler, thrown, lastRead, invocations, other,
                   sanitizerVars, permuteVars>>

\* profile.getStrength(pwnedPasswords), with and without a list
GetStrength ==
    /\ profile # None
    /\ \E pwnedPasswords \in {None} \cup {Some(l) : l \in PwnedLists} :
        lastRead' =
            IF getStrengthThrows(Get(profile), pwnedPasswords)
            THEN Some([of |-> "profile", getter |-> "getStrength",
                       argument |-> pwnedPasswords,
                       value |-> "none", threw |-> "TypeError"])
            ELSE Some([of |-> "profile", getter |-> "getStrength",
                       argument |-> pwnedPasswords,
                       value |-> getStrength(Get(profile), pwnedPasswords),
                       threw |-> "none"])
    /\ UNCHANGED <<options, profiler, thrown, profile, invocations, other,
                   sanitizerVars, permuteVars>>

InitPwned ==
    /\ NoSanitizer
    /\ NoPermute
    /\ NoProfiler
NextPwned ==
    \/ ConstructProfile
    \/ GetStrength
SpecPwned == InitPwned /\ [][NextPwned]_vars

-----------------------------------------------------------------------------
(* Claims on the PasswordProfile *)

\* the profile the last read was made on
Subject == IF Get(lastRead).of = "other" THEN Get(other) ELSE Get(profile)

HasRead(getter) ==
    /\ lastRead # None
    /\ Get(lastRead).getter = getter
    /\ Get(lastRead).threw = "none"

InRange(e, range) == e >= range[1] /\ e <= range[2]

\* C11: strength is the label of the first configured range whose [min, max],
\* bounds included, holds the entropy; it is the label of the last range
\* without that range holding the entropy only when the entropy is above the
\* maximum of every range.
C11_FirstRangeOrAboveAll ==
    HasRead("strength") =>
        LET ranges == Subject.options.strengthRanges
            e == entropy(Subject)
            holding == {k \in 1..Len(ranges) : InRange(e, ranges[k].range)}
        IN IF holding # {}
           THEN \E k \in holding :
                    /\ \A j \in holding : k <= j
                    /\ Get(lastRead).value = ranges[k].label
           ELSE /\ Get(lastRead).value = ranges[Len(ranges)].label
                /\ \A k \in 1..Len(ranges) : e > ranges[k].range[2]

\* the distinct sanitized variants of the profile read last
Variants == {sanitizedVersions(Subject)[k] : k \in 1..Len(sanitizedVersions(Subject))}

\* length times log2 of the pool size of the original password, in millionths
VariantBits(v) ==
    LET pool == poolSize(Subject.password) IN
    IF Len(v) = 0 THEN 0
    ELSE IF pool = 0 THEN MinusInfinity
    ELSE Len(v) * Log2(pool)

RECURSIVE TotalBits(_)
TotalBits(set) ==
    IF set = {} THEN 0
    ELSE LET v == CHOOSE x \in set : TRUE
         IN VariantBits(v) + TotalBits(set \ {v})

LeastBits == CHOOSE b \in {VariantBits(v) : v \in Variants} :
                 \A v \in Variants : b <= VariantBits(v)

RoundsTo(x, n, h) ==
    /\ 2 * (h * 10000 * n - x) <= 10000 * n
    /\ 2 * (x - h * 10000 * n) < 10000 * n

TwinWithStrict(strict) ==
    [password |-> Subject.password,
     options |-> Constructed([Get(options) EXCEPT !.strict = Some(strict)]),
     cachedSanitizedOutput |-> None]

VariantsOf(p) == {sanitizedVersions(p)[k] : k \in 1..Len(sanitizedVersions(p))}

\* C13: a strict and a non-strict profiler of otherwise one configuration
\* give a password the same set of sanitized variants; the strict entropy is
\* never above the non-strict one, and the two differ whenever two variants
\* have different lengths.
C13_StrictBelowAndDiffers ==
    HasRead("entropy") =>
        LET strict == TwinWithStrict(TRUE)
            lenient == TwinWithStrict(FALSE)
        IN /\ Get(lastRead).value = entropy(TwinWithStrict(Subject.options.strict))
           /\ VariantsOf(strict) = VariantsOf(lenient)
           /\ entropy(strict) <= entropy(lenient)
           /\ (\E v, w \in VariantsOf(strict) : Len(v) # Len(w))
                  => entropy(strict) # entropy(lenient)

\* the classes of a character: Uppercase, Lowercase, Digit, Symbol
ClassesOf(c) ==
    {class \in {"U", "L", "D", "S"} :
        \/ class = "U" /\ c \in 65..90
        \/ class = "L" /\ c \in 97..122
        \/ class = "D" /\ c \in 48..57
        \/ class = "S" /\ IsSymbol(c)}

ClassesIn(password) == UNION {ClassesOf(password[k]) : k \in 1..Len(password)}

ClassSize(class) ==
    CASE class = "U" -> 26 [] class = "L" -> 26 [] class = "D" -> 10 [] class = "S" -> 34

RECURSIVE TotalSize(_)
TotalSize(classes) ==
    IF classes = {} THEN 0
    ELSE LET class == CHOOSE x \in classes : TRUE
         IN ClassSize(class) + TotalSize(classes \ {class})

\* C14: poolSize is the sum of the sizes of the classes present in the
\* original password (digit 10, symbol 34, lowercase 26, uppercase 26), each
\* counted once; composition lists exactly those classes in the order U, L,
\* D, S.
C14_ClassesCountedOnce ==
    /\ HasRead("poolSize") =>
           Get(lastRead).value = TotalSize(ClassesIn(Subject.password))
    /\ HasRead("composition") =>
           /\ {Get(lastRead).value[k] : k \in 1..Len(Get(lastRead).value)}
                  = ClassesIn(Subject.password)
           /\ \E pick \in SUBSET (1..4) :
                  Get(lastRead).value = Pick(<<"U", "L", "D", "S">>, pick, 1)
           /\ poolSize(Subject.password)
                  = TotalSize({Get(lastRead).value[k] : k \in 1..Len(Get(lastRead).value)})

\* 'Test' has the pool size 52
C14_Witness ==
    /\ HasRead("poolSize")
    /\ Subject.password = <<84, 101, 115, 116>>
    /\ Get(lastRead).value = 52

-----------------------------------------------------------------------------
(* Claims on permute *)

RECURSIVE Factorial(_)
Factorial(n) == IF n <= 1 THEN 1 ELSE n * Factorial(n - 1)

\* how often x occurs in the array a
Occurrences(a, x) == Cardinality({i \in 1..Len(a) : a[i] = x})

\* the product of the factorials of the multiplicities of the items of a
RECURSIVE MultiplicityProduct(_, _)
MultiplicityProduct(a, values) ==
    IF values = {} THEN 1
    ELSE LET x == CHOOSE v \in values : TRUE IN
         Factorial(Occurrences(a, x)) * MultiplicityProduct(a, values \ {x})

ItemsOf(a) == {a[i] : i \in 1..Len(a)}

\* C6: permute returns every distinct ordering of its input exactly once:
\* each returned array is a rearrangement of the input, no two returned
\* arrays are equal, and there are n! / (product of the factorials of the
\* multiplicities) of them, for every input, mixed types included.
C6_DistinctOrderings ==
    permutations # "none" =>
        /\ \A k \in 1..Len(permutations) :
               /\ Len(permutations[k]) = Len(arr)
               /\ \A x \in ItemsOf(arr) \cup ItemsOf(permutations[k]) :
                      Occurrences(permutations[k], x) = Occurrences(arr, x)
        /\ \A j, k \in 1..Len(permutations) :
               j # k => permutations[j] # permutations[k]
        /\ Len(permutations) * MultiplicityProduct(arr, ItemsOf(arr))
               = Factorial(Len(arr))

-----------------------------------------------------------------------------
(* Claims on the sanitizer pipelines *)

\* the sanitizers the profiler was configured with
Configured == SanitizersOf(Get(options))

\* C15: the profiler holds exactly one pipeline per distinct ordering of the
\* configured sanitizers (24 for the four defaults); every pipeline begins
\* with the pattern-stripping step and then holds each configured sanitizer
\* exactly as often as it is configured.
C15_OnePipelinePerOrdering ==
    profiler # None =>
        LET list == Get(profiler).sanitizersList IN
        /\ \A k \in 1..Len(list) :
               /\ Len(list[k]) = Len(Configured) + 1
               /\ list[k][1] = PatternStep
               /\ \A x \in ItemsOf(Configured) \cup ItemsOf(Tail(list[k])) :
                      Occurrences(Tail(list[k]), x) = Occurrences(Configured, x)
        /\ \A j, k \in 1..Len(list) : j # k => list[j] # list[k]
        /\ Len(list) * MultiplicityProduct(Configured, ItemsOf(Configured))
               = Factorial(Len(Configured))
        /\ Configured = DefaultSanitizers => Len(list) = 24

\* the orderings of a list
Reorderings(list) ==
    {r \in [1..Len(list) -> ItemsOf(list)] :
        \A x \in ItemsOf(list) : Occurrences(r, x) = Occurrences(list, x)}

\* the profile a profiler built from the same options, with the sanitizers
\* listed in the given order, returns for the same password
TwinWithSanitizers(sanitizers) ==
    [password |-> Subject.password,
     options |-> Constructed([Get(options) EXCEPT !.sanitizers = Some(sanitizers)]),
     cachedSanitizedOutput |-> None]

StrengthOf(p) == IF strengthThrows(p) THEN "TypeError" ELSE strength(p)

\* C16: the order in which the caller lists custom sanitizers is irrelevant:
\* profilers built from the same functions in another order give every
\* password the same set of sanitized variants, entropy and strength.
C16_OrderIrrelevant ==
    (lastRead # None /\ Get(options).sanitizers # None) =>
        \A r \in Reorderings(Configured) :
            LET twin == AfterRead(TwinWithSanitizers(r)) IN
            /\ VariantsOf(twin) = VariantsOf(Subject)
            /\ entropy(twin) = entropy(Subject)
            /\ StrengthOf(twin) = StrengthOf(Subject)

\* 'abbc' read with the two custom sanitizers: 'abc' when the repeats are
\* stripped first, 'a' when the ascending runs are
C16_Witness ==
    /\ HasRead("sanitizedVersions")
    /\ Get(options).sanitizers # None
    /\ Len(Configured) = 2
    /\ Subject.password = <<97, 98, 98, 99>>
    /\ VariantsOf(Subject) = {<<97>>, <<97, 98, 99>>}

\* what every pipeline of the profile makes of its password
PipelineResults(p) ==
    {RunPipeline(p.options.sanitizersList[k], 1, p.options.rejectedPatterns, p.password) :
        k \in 1..Len(p.options.sanitizersList)}

\* C17: sanitizedVersions holds no two equal strings, and as a set it is the
\* set of the results of applying every pipeline of the profiler to the
\* password.
C17_DistinctPipelineResults ==
    HasRead("sanitizedVersions") =>
        LET versions == Get(lastRead).value IN
        /\ \A j, k \in 1..Len(versions) : j # k => versions[j] # versions[k]
        /\ {versions[k] : k \in 1..Len(versions)} = PipelineResults(Subject)

\* the 24 default pipelines make two strings of 'abbc'
C17_Witness ==
    /\ HasRead("sanitizedVersions")
    /\ Len(Subject.options.sanitizersList) = 24
    /\ Subject.password = <<97, 98, 98, 99>>
    /\ Len(Get(lastRead).value) = 2

-----------------------------------------------------------------------------
(* Claims on laziness *)

\* the value and the error of the getter on a profile just parsed from the
\* same password by the same profiler
FreshValue(getter) ==
    LET fresh == [password |-> Subject.password,
                  options |-> Get(profiler),
                  cachedSanitizedOutput |-> None]
    IN CASE getter = "poolSize" -> <<poolSize(fresh.password), "none">>
         [] getter = "composition" -> <<composition(fresh.password), "none">>
         [] getter = "sanitizedVersions" -> <<sanitizedVersions(fresh), "none">>
         [] getter = "entropy" -> <<entropy(fresh), "none">>
         [] getter = "strength" ->
                IF strengthThrows(fresh) THEN <<"none", "TypeError">>
                ELSE <<strength(fresh), "none">>

IsCached(p) == p # None /\ Get(p).cachedSanitizedOutput # None

\* C18: parse invokes no sanitizer; the pipelines are run by the first read
\* of sanitizedVersions, entropy or strength; every later read of these
\* invokes no sanitizer and returns what the first read of that getter did.
C18_LazyAndMemoized ==
    /\ [](~IsCached(profile) => invocations = 0)
    /\ [](lastRead # None =>
             <<Get(lastRead).value, Get(lastRead).threw>> = FreshValue(Get(lastRead).getter))
    /\ [][/\ (profile = None /\ profile' # None) => ~IsCached(profile')
          /\ (~IsCached(profile) /\ IsCached(profile')) =>
                 /\ Get(lastRead').getter \in {"sanitizedVersions", "entropy", "strength"}
                 /\ Get(lastRead').ran
                 /\ invocations' = TotalLength(Get(profiler).sanitizersList)
                 /\ invocations' > 0
          /\ IsCached(profile) =>
                 /\ invocations' = invocations
                 /\ profile' = profile
                 /\ lastRead' # lastRead => ~Get(lastRead').ran]_vars

\* a read of entropy that ran nothing, the 120 calls of the 24 default
\* pipelines having been made by an earlier read
C18_Witness ==
    /\ HasRead("entropy")
    /\ ~Get(lastRead).ran
    /\ invocations = 120

-----------------------------------------------------------------------------
(* Claims on the independence of profiles *)

\* the state of a profile parsed from this password by this profiler, before
\* and after its pipelines have run
StatesOf(password) ==
    LET fresh == [password |-> password,
                  options |-> Get(profiler),
                  cachedSanitizedOutput |-> None]
    IN {fresh, AfterRead(fresh)}

\* C19: a read of one profile leaves the profiler, its options and the other
\* profile as they were, and what each read returns is what a profile parsed
\* alone from the same password by the same profiler returns.
C19_ProfilesIndependent ==
    /\ [](lastRead # None =>
             <<Get(lastRead).value, Get(lastRead).threw>> = FreshValue(Get(lastRead).getter))
    /\ [][/\ profiler' = profiler
          /\ options' = options
          /\ profile' # profile =>
                 /\ Get(profile') \in StatesOf(Get(profile').password)
                 /\ other' = other
                 /\ profile # None =>
                        /\ Get(lastRead').of = "profile"
                        /\ Get(profile').password = Get(profile).password
          /\ other' # other =>
                 /\ Get(other') \in StatesOf(Get(other').password)
                 /\ profile' = profile
                 /\ other # None =>
                        /\ Get(lastRead').of = "other"
                        /\ Get(other').password = Get(other).password]_vars

\* entropy read on 'abbc' parsed after the profile of another password had
\* run its pipelines
C19_Witness ==
    /\ HasRead("entropy")
    /\ Get(lastRead).of = "other"
    /\ ~Get(lastRead).ran
    /\ Get(other).password = <<97, 98, 98, 99>>
    /\ IsCached(profile)
    /\ Get(profile).password = <<97, 97, 97>>

-----------------------------------------------------------------------------
(* Claims on the rejected patterns *)

Resolved == Get(profiler).rejectedPatterns

Supplied ==
    IF Get(options).rejectedPatterns = None THEN <<>>
    ELSE Get(Get(options).rejectedPatterns)

\* the first n patterns of the list stripped from s, one after the other
RECURSIVE StrippedInOrder(_, _, _)
StrippedInOrder(list, n, s) ==
    IF n = 0 THEN s
    ELSE stripPattern(StrippedInOrder(list, n - 1, s), StringPattern(list[n]))

\* C20: the profiler's rejected patterns contain every built-in pattern and
\* every pattern of the caller, none of them twice, no pattern after a
\* strictly shorter one; the pattern step strips them in that order.
C20_PatternsLongestFirst ==
    /\ \A k \in 1..Len(COMMON_PATTERNS) :
           \E j \in 1..Len(Resolved) : Resolved[j] = COMMON_PATTERNS[k]
    /\ \A k \in 1..Len(Supplied) :
           \E j \in 1..Len(Resolved) : Resolved[j] = Supplied[k]
    /\ \A j, k \in 1..Len(Resolved) : j # k => Resolved[j] # Resolved[k]
    /\ \A j, k \in 1..Len(Resolved) : j < k => Len(Resolved[j]) >= Len(Resolved[k])
    /\ HasRead("sanitizedVersions") =>
           Get(lastRead).value =
               << StrippedInOrder(Resolved, Len(Resolved), Subject.password) >>

\* 'ab', 'abc', 'ab' supplied: 'abc' is stripped before 'ab', so that 'abc'
\* becomes 'a' and not 'ac'
C20_Witness ==
    /\ Supplied = << <<97, 98>>, <<97, 98, 99>>, <<97, 98>> >>
    /\ Resolved = << <<113, 119, 101, 114, 116, 121>>, <<112, 97, 115, 115>>,
                     <<97, 98, 99>>, <<97, 98>> >>
    /\ HasRead("sanitizedVersions")
    /\ Subject.password = <<97, 98, 99>>
    /\ Get(lastRead).value = << <<97>> >>

-----------------------------------------------------------------------------
(* Claims on stripPattern *)

\* the positions of s where the matcher matches
MatchingAt(s, m) == {i \in 1..Len(s) : MatchesAt(s, i, m)}

\* the matches replace makes: the leftmost one, and with the g flag every
\* further one that starts after the end of the match before it
Replaced(s, m) ==
    LET n == Len(m.source)
        all == MatchingAt(s, m)
    IN IF all = {} THEN {}
       ELSE IF ~m.global THEN {CHOOSE i \in all : \A j \in all : i <= j}
       ELSE CHOOSE P \in SUBSET all :
                \A i \in all : i \in P <=> ~\E p \in P : p < i /\ i < p + n

\* s without the characters at the positions in dropped
Without(s, dropped) ==
    LET kept[i \in 0..Len(s)] ==
            IF i = 0 THEN <<>>
            ELSE IF i \in dropped THEN kept[i - 1]
            ELSE Append(kept[i - 1], s[i])
    IN kept[Len(s)]

\* C21: stripPattern keeps of every match the matcher makes its first
\* character as it stands in the input and drops the rest of the match; it
\* returns the input as it is when nothing matches; with a global matcher no
\* occurrence is left that does not overlap a replaced one.
C21_MatchesCutToFirst ==
    (op = "stripPattern" /\ matcher # None) =>
        LET m == Get(matcher)
            n == Len(m.source)
        IN IF n = 0 THEN str = prev
           ELSE LET P == Replaced(prev, m)
                    rest == UNION {(p + 1)..(p + n - 1) : p \in P}
                IN /\ str = Without(prev, rest)
                   /\ MatchingAt(prev, m) = {} => str = prev
                   /\ m.global =>
                          \A i \in MatchingAt(prev, m) :
                              i \in P \/ \E p \in P : p < i /\ i < p + n

\* 'aBab' with /ab/gi becomes 'aa'
C21_Witness ==
    /\ op = "stripPattern"
    /\ matcher = Some(toRegex(<<97, 98>>, <<"g", "i">>))
    /\ prev = <<97, 66, 97, 98>>
    /\ str = <<97, 97>>

-----------------------------------------------------------------------------
(* Claims on short passwords *)

\* new PasswordProfiler(): no option given
IsDefaultProfiler ==
    /\ options # None
    /\ Get(options).strengthRanges = None
    /\ Get(options).rejectedPatterns = None
    /\ Get(options).sanitizers = None
    /\ Get(options).strict = None

ReadStrengthOfDefault ==
    /\ IsDefaultProfiler
    /\ lastRead # None
    /\ Get(lastRead).getter = "strength"

\* C22: with the default profiler a password of at most 4 characters is
\* 'Very Weak' and one of 5 to 7 characters is 'Very Weak' or 'Weak'.
C22_ShortPasswordsWeak ==
    ReadStrengthOfDefault =>
        /\ Len(Subject.password) <= 4 => Get(lastRead).value = "Very Weak"
        /\ Len(Subject.password) \in 5..7 =>
               Get(lastRead).value \in {"Very Weak", "Weak"}

-----------------------------------------------------------------------------
(* Claims on repeated patterns *)

\* p concatenated k times
RECURSIVE Repeat(_, _)
Repeat(p, k) == IF k = 0 THEN <<>> ELSE p \o Repeat(p, k - 1)

\* the lengths of the strings p of which s is p concatenated k >= 1 times
UnitLengths(s) ==
    {l \in 1..Len(s) :
        /\ Len(s) % l = 0
        /\ s = Repeat(SubSeq(s, 1, l), Len(s) \div l)}

\* the profile the profiler of profile gives for password p
TwinWithPassword(p) ==
    [password |-> p,
     options |-> Subject.options,
     cachedSanitizedOutput |-> None]

\* C23: for the default profiler the entropy of p concatenated k >= 1 times
\* is not greater than the entropy of p.
C23_RepeatNotStronger ==
    (HasRead("entropy") /\ IsDefaultProfiler) =>
        \A l \in UnitLengths(Subject.password) :
            Get(lastRead).value <=
                entropy(TwinWithPassword(SubSeq(Subject.password, 1, l)))

-----------------------------------------------------------------------------
(* Claims on getStrength *)

\* getStrength was called with a list of pwned passwords on a profile that
\* has a strength range
GotStrengthWithList ==
    /\ lastRead # None
    /\ Get(lastRead).getter = "getStrength"
    /\ Get(lastRead).argument # None
    /\ Get(profile).strengthRanges # <<>>

\* the number of entries of the list equal to the password
EntriesEqual(list, password) ==
    Cardinality({k \in 1..Len(list) : list[k] = password})

\* the label of the first range that holds the entropy (in millionths), of
\* the last range if none does
LabelByEntropy(ranges, e) ==
    LET holding == {k \in 1..Len(ranges) :
                       /\ e # MinusInfinity
                       /\ ranges[k].range[1] * 10000 <= e
                       /\ ranges[k].range[2] # Infinity => e <= ranges[k].range[2] * 10000}
    IN IF holding = {} THEN ranges[Len(ranges)].label
       ELSE ranges[CHOOSE k \in holding : \A j \in holding : k <= j].label

\* C24: getStrength with a list that holds the password reports the label of
\* the first range, isPwned true and the number of entries equal to the
\* password; with a list that does not hold it, isPwned false and the label
\* the entropy gives.
C24_PwnedForcesLowest ==
    GotStrengthWithList =>
        LET list == Get(Get(lastRead).argument)
            p == Get(profile)
            n == EntriesEqual(list, p.password)
            report == Get(lastRead).value
        IN /\ Get(lastRead).threw = "none"
           /\ n > 0 =>
                  /\ report.label = p.strengthRanges[1].label
                  /\ report.isPwned = Some(TRUE)
                  /\ report.timesPwned = Some(n)
           /\ n = 0 =>
                  /\ report.isPwned = Some(FALSE)
                  /\ report.label = LabelByEntropy(p.strengthRanges, entropyOfSanitized(p))

\* 'aA1#bB2', 'Weak' by its entropy, is 'Very Weak' when the list holds it
\* twice
C24_Witness ==
    /\ GotStrengthWithList
    /\ Get(profile).password = <<97, 65, 49, 35, 98, 66, 50>>
    /\ Get(profile).strengthRanges = DEFAULT_STRENGTH_RANGES
    /\ LabelByEntropy(DEFAULT_STRENGTH_RANGES, entropyOfSanitized(Get(profile))) = "Weak"
    /\ Get(lastRead).value.label = "Very Weak"
    /\ Get(lastRead).value.timesPwned = Some(2)

-----------------------------------------------------------------------------
(* Claims on what the transformers leave *)

\* C25: the string stripRepeatedStrings returns holds no substring that is
\* immediately followed by an identical copy of itself.
C25_NoRepeatLeft ==
    op = "stripRepeatedStrings" => ~HasRepeat(str)

\* t can be had from s by dropping characters of s
RECURSIVE IsSubsequence(_, _)
IsSubsequence(t, s) ==
    IF t = <<>> THEN TRUE
    ELSE IF s = <<>> THEN FALSE
    ELSE IF t[1] = s[1] THEN IsSubsequence(Tail(t), Tail(s))
    ELSE IsSubsequence(t, Tail(s))

\* C26: what a transformer returns is a subsequence of what it received:
\* the characters that are left stand in the input, in the same letter
\* case and the same order, and so the result of a pipe is a subsequence of
\* the string the pipe started from.
C26_Subsequence ==
    /\ IsSubsequence(str, prev)
    /\ IsSubsequence(str, input)

\* 'aB1' with /b1/gi: 'B1' is cut to 'B', not to 'b'
C26_Witness ==
    /\ op = "stripPattern"
    /\ prev = <<97, 66, 49>>
    /\ str = <<97, 66>>

-----------------------------------------------------------------------------
(* Claims on errors *)

\* C27: once a profiler is constructed, no read of poolSize, composition,
\* sanitizedVersions, entropy or strength of a profile it parsed throws.
C27_ReadsNeverThrow ==
    lastRead # None => Get(lastRead).threw = "none"

-----------------------------------------------------------------------------
(* Claims on the caller's arrays *)

\* C28: permute leaves the array it is handed as it was: the same elements
\* in the same order.
C28_InputUnchanged == [][arr' = arr]_vars

-----------------------------------------------------------------------------
(* Claims on the number of variants *)

\* C29: every profiler has at least one pipeline, also the one constructed
\* with an empty list of sanitizers, and so sanitizedVersions holds at least
\* one string and entropy takes its minimum or mean of at least one value.
C29_AtLeastOneVariant ==
    /\ profiler # None => Len(Get(profiler).sanitizersList) >= 1
    /\ IsCached(profile) =>
           /\ Len(Get(Get(profile).cachedSanitizedOutput)) >= 1
           /\ Len(sanitizedVersions(Get(profile))) >= 1
    /\ HasRead("sanitizedVersions") => Len(Get(lastRead).value) >= 1

\* sanitizedVersions read on a profiler constructed with sanitizers: []
C29_Witness ==
    /\ HasRead("sanitizedVersions")
    /\ Get(options).sanitizers = Some(<<>>)
    /\ Len(Get(lastRead).value) = 1
    /\ Subject.password = <<97, 98, 99>>

-----------------------------------------------------------------------------
(* Claims on a second pass of stripSequentialStrings *)

\* some maximal run of s stepping by d holds 3 or more characters
HasLongRun(s, d) ==
    \E i \in 1..Len(s) : RunLast(s, i, d) - RunFirst(s, i, d) + 1 >= 3

\* C30: the result of stripSequentialStrings(s, d) holds no run of 3 or more
\* characters stepping by d, so a second call with the same d returns it
\* unchanged.
C30_SequentialIdempotent ==
    /\ op = "stripSequentialStrings(1)"
           => /\ ~HasLongRun(str, 1)
              /\ stripSequentialStrings(str, 1) = str
    /\ op = "stripSequentialStrings(-1)"
           => /\ ~HasLongRun(str, -1)
              /\ stripSequentialStrings(str, -1) = str

====
